---- MODULE Spec2Model ----
(***************************************************************************)
(* Model of core/ledger/kvledger/kv_ledger.go: the KVLedger coordinator    *)
(* (NewKVLedger, recoverStateDB, RemoveInvalidTransactionsAndPrepare,      *)
(* Commit, Rollback) over its three collaborators: the block store, the    *)
(* state transaction manager (txtmgmt) and the history manager.            *)
(***************************************************************************)
EXTENDS Integers, Sequences, FiniteSets, TLC

\* Bound on the block-store height: no block is prepared beyond it.
MaxHeight == 3

\* The keys of the state database.
Keys == {"a"}

\* The version of a key that no transaction has written: (block 0, tx 0).
NoVersion == <<0, 0>>

\* nil *common.Block
NoBlock == [num |-> 0, txs |-> <<>>, flags |-> <<>>]

\* nil update set of the state manager (nothing staged)
NoUpdateSet == [num |-> 0, writes |-> {}]

\* The state database before any block has been applied.
EmptyState == [k \in Keys |-> NoVersion]

----------------------------------------------------------------------------
(* State transaction manager: validation, update sets.                     *)

\* Validity of transactions 1..n of a block validated against the committed
\* state st: the version a transaction read must still be the committed one,
\* and no earlier valid transaction of the block may have written its key.
RECURSIVE ValidFlags(_, _, _)
ValidFlags(txs, st, n) ==
    IF n = 0 THEN <<>>
    ELSE LET prev == ValidFlags(txs, st, n - 1)
             t == txs[n]
             clash == \E j \in 1..(n - 1) : prev[j] /\ txs[j].key = t.key
         IN  Append(prev, t.ver = st[t.key] /\ ~clash)

\* The validity recorded in a stored block for its transaction i.
RecordedValid(block, i) ==
    IF i \in DOMAIN block.flags THEN block.flags[i] ELSE TRUE

\* The update set of block num: the writes of its valid transactions, each at
\* version (block number, transaction number).
UpdateSetOf(num, txs, flags) ==
    [num |-> num,
     writes |-> {[key |-> txs[i].key, ver |-> <<num, i>>] :
                    i \in {j \in 1..Len(txs) : flags[j]}}]

\* txtmgmt.ValidateAndPrepare(block, doFilter) on committed state st: the
\* block annotated with the validity of its transactions, the rejected
\* transactions, and the update set it stages.
ValidateAndPrepare(block, doFilter, st) ==
    LET n == Len(block.txs)
        flags == IF doFilter THEN ValidFlags(block.txs, st, n)
                 ELSE [i \in 1..n |-> RecordedValid(block, i)]
    IN  [block |-> [block EXCEPT !.flags = flags],
         invalidTxs |-> {i \in 1..n : ~flags[i]},
         updateSet |-> UpdateSetOf(block.num, block.txs, flags)]

\* The state database after applying an update set.
ApplyUpdates(st, us) ==
    [k \in Keys |->
        IF \E w \in us.writes : w.key = k
        THEN (CHOOSE w \in us.writes : w.key = k).ver
        ELSE st[k]]

----------------------------------------------------------------------------
(* Inputs.                                                                 *)

\* A transaction reads one key at a version and writes that key. A caller
\* simulated it either on the committed state (fresh read) or before the key
\* was ever written (stale once the key has been written).
TxChoices(st) ==
    UNION {{[key |-> k, ver |-> v] : v \in {st[k], NoVersion}} : k \in Keys}

\* The transaction lists of the blocks a caller submits: one or two
\* transactions.
Proposals(st) ==
    {<<t>> : t \in TxChoices(st)}
        \cup {<<t1, t2>> : t1 \in TxChoices(st), t2 \in TxChoices(st)}

\* The block a caller submits at block-store height h.
NewBlock(h, txs) == [num |-> h + 1, txs |-> txs, flags |-> <<>>]

\* The block logs that live commits build, with the state after each block:
\* chains of length up to n.
RECURSIVE Chains(_)
Chains(n) ==
    IF n = 0 THEN {[log |-> <<>>, sts |-> <<>>]}
    ELSE LET shorter == Chains(n - 1)
             last(c) == IF c.log = <<>> THEN EmptyState ELSE c.sts[Len(c.sts)]
             ext(c, txs) ==
                 LET r == ValidateAndPrepare(NewBlock(Len(c.log), txs), TRUE, last(c))
                 IN  [log |-> Append(c.log, r.block),
                      sts |-> Append(c.sts, ApplyUpdates(last(c), r.updateSet))]
         IN  shorter \cup
             UNION {{ext(c, txs) : txs \in Proposals(last(c))} :
                        c \in {d \in shorter : Len(d.log) = n - 1}}

----------------------------------------------------------------------------
VARIABLES
    blocks,                \* block store: the appended blocks, in order
    state,                 \* state manager: committed state database
    savepoint,             \* state manager: persisted savepoint
    updateSet,             \* state manager: staged update set (in memory)
    history,               \* history manager: numbers of the blocks mirrored
    histEnabled,           \* ledgerconfig.IsHistoryDBEnabled()
    pendingBlockToCommit,  \* KVLedger.pendingBlockToCommit
    pc,                    \* where the process is
    infoHeight,            \* recoverStateDB: info.Height
    savepointValue,        \* recoverStateDB: savepointValue
    blockNumber,           \* recoverStateDB: loop variable
    outcome,               \* result of the last operation
    prev,                  \* result of the operation before it
    err,                   \* the error of the last operation, "nil" if none
    trace,                 \* collaborator calls made by the last operation
    applied,               \* per block number: times its update set was applied
    snap,                  \* durable state before the last successful prepare
    iter                   \* the consumer of a block iterator, if there is one

vars == <<blocks, state, savepoint, updateSet, history, histEnabled,
          pendingBlockToCommit, pc, infoHeight, savepointValue, blockNumber,
          outcome, prev, err, trace, applied, snap, iter>>

durable == <<blocks, state, savepoint, history, applied>>
config == <<histEnabled>>
recoveryLocals == <<infoHeight, savepointValue, blockNumber>>

Height == Len(blocks)

Call(op, n) == [op |-> op, n |-> n]

\* What a successful prepare of txs starts from: the durable state, and
\* whether it replaces a pending block of other transactions.
Snapshot(txs) ==
    [state |-> state, savepoint |-> savepoint, height |-> Height, txs |-> txs,
     replaced |-> pendingBlockToCommit # NoBlock /\ pendingBlockToCommit.txs # txs]

\* No iterator is open. An open one has the height its consumer asked for,
\* the height the block store serves next, and the block it delivered.
NoIter == [asked |-> 0, next |-> 0, got |-> NoBlock]

\* No block is pending: there is no prepare to compare with.
NoSnapshot ==
    [state |-> EmptyState, savepoint |-> 0, height |-> 0, txs |-> <<>>,
     replaced |-> FALSE]

----------------------------------------------------------------------------
\* A ledger directory as construction may find it: a block log of height h
\* built by live commits, a state database that has applied the first s
\* blocks of it, and the history of those blocks if history is enabled.
InitWith(c, h, s) ==
    /\ blocks = SubSeq(c.log, 1, h)
    /\ state = IF s = 0 THEN EmptyState ELSE c.sts[s]
    /\ savepoint = s
    /\ updateSet = NoUpdateSet
    /\ histEnabled \in BOOLEAN
    /\ history = IF histEnabled THEN [i \in 1..s |-> i] ELSE <<>>
    /\ pendingBlockToCommit = NoBlock
    /\ pc = "down"
    /\ infoHeight = 0
    /\ savepointValue = 0
    /\ blockNumber = 0
    /\ iter = NoIter
    /\ outcome = "none"
    /\ prev = "none"
    /\ err = "nil"
    /\ trace = <<>>
    /\ applied = [n \in 1..MaxHeight |-> IF n <= s THEN 1 ELSE 0]
    /\ snap = NoSnapshot

\* Initially consistent: savepoint <= block-store height.
Init ==
    \E c \in Chains(MaxHeight) :
        \E h \in 0..Len(c.log), s \in 0..Len(c.log) :
            s <= h /\ InitWith(c, h, s)

\* The directory of a ledger that is created for the first time.
InitFresh == \E c \in Chains(0) : InitWith(c, 0, 0)

\* Any ledger directory, also one whose block store is behind the state.
InitAny ==
    \E c \in Chains(MaxHeight) :
        \E h \in 0..Len(c.log), s \in 0..Len(c.log) : InitWith(c, h, s)

----------------------------------------------------------------------------
(* Collaborators, at the interface the coordinator calls.                  *)

\* blockStore.AddBlock(block): append.
AddBlock(bs, block) == Append(bs, block)

\* blockStore.RetrieveBlockByNumber(n)
RetrieveBlockByNumber(bs, n) == bs[n]

\* txtmgmt.Commit(): apply the staged update set, move the savepoint to the
\* height of its block.
TxMgrCommit(st, us) == [state |-> ApplyUpdates(st, us), savepoint |-> us.num]

\* historymgmt.Commit(block): mirror the block into the history.
HistCommit(hist, block) == Append(hist, block.num)

\* One more application of the update set of block n.
Count(ap, n) == [ap EXCEPT ![n] = @ + 1]

----------------------------------------------------------------------------
(* The process.                                                            *)

\* The snapshot is kept for the operation that ends the prepared block
\* (Commit, Rollback) and dropped by the first operation after it.
KeepSnapshot ==
    snap' = IF pendingBlockToCommit = NoBlock THEN NoSnapshot ELSE snap

\* A consumer that waits for its block goes on waiting; one that has got
\* its block closes its iterator, and the record of the hand-over is dropped
\* by the first operation of the ledger after it.
KeepWaiting ==
    iter' = IF iter.got = NoBlock THEN iter ELSE NoIter

\* The process is gone (panic or crash): what it held in memory is lost.
Dead ==
    /\ pc' = "down"
    /\ pendingBlockToCommit' = NoBlock
    /\ updateSet' = NoUpdateSet
    /\ infoHeight' = 0
    /\ savepointValue' = 0
    /\ blockNumber' = 0

\* recoverStateDB returned err: NewKVLedger panics, no handle is returned.
ConstructPanic(e, calls) ==
    /\ Dead
    /\ outcome' = "construct_panic"
    /\ err' = e
    /\ trace' = calls

\* recoverStateDB returned nil: NewKVLedger returns the handle.
Constructed(calls) ==
    /\ pc' = "ready"
    /\ infoHeight' = 0
    /\ savepointValue' = 0
    /\ blockNumber' = 0
    /\ outcome' = "constructed"
    /\ err' = "nil"
    /\ trace' = calls

\* Variant: the empty block store is not recognised.
NothingToRecover_Never(h) == FALSE

\* recoverStateDB: there is no block in the block store.
NothingToRecover(h) == h = 0

\* recoverStateDB: the savepoint is in sync with the block-store height.
InSync(sp, h) == sp = h

\* Variant: a savepoint ahead of the block store is not detected.
StoreBehind_Never(sp, h) == FALSE

\* recoverStateDB: the block store is behind the savepoint.
StoreBehind(sp, h) == sp > h

\* Variant: the loop starts at the savepoint itself, replaying a block the
\* state already reflects.
FirstReplayed_AtSavepoint(sp) == IF sp = 0 THEN 1 ELSE sp

\* Variant: the loop starts one block too late.
FirstReplayed_Skip(sp) == sp + 2

\* recoverStateDB: the first height the loop replays.
FirstReplayed(sp) == sp + 1

\* Variant: the last replayed block is left pending.
PendingAfterRecovery_Kept(pending) == pending

\* recoverStateDB: the pending block once the loop is over.
PendingAfterRecovery(pending) == NoBlock

\* Variant: the value read is assigned to a shadowing variable, the
\* function's own savepointValue keeps its zero value.
SavepointRead_Shadowed(sp) == 0

\* recoverStateDB: the value of savepointValue once the savepoint is read.
SavepointRead(sp) == sp

\* NewKVLedger up to the replay loop of recoverStateDB.
NewKVLedger ==
    /\ pc = "down"
    /\ prev' = outcome
    /\ UNCHANGED <<durable, config, iter>>
    /\ KeepSnapshot
    /\ \E readOk \in BOOLEAN :
        LET info == Call("GetBlockchainInfo", Height)
            read == Call("GetBlockNumFromSavepoint", IF readOk THEN savepoint ELSE -1)
        IN  IF NothingToRecover(Height)
            THEN /\ Constructed(<<info>>)
                 /\ pendingBlockToCommit' = NoBlock
                 /\ UNCHANGED updateSet
            ELSE IF ~readOk
            THEN ConstructPanic("savepoint", <<info, read>>)
            ELSE IF InSync(SavepointRead(savepoint), Height)
            THEN /\ Constructed(<<info, read>>)
                 /\ pendingBlockToCommit' = NoBlock
                 /\ UNCHANGED updateSet
            ELSE IF StoreBehind(SavepointRead(savepoint), Height)
            THEN ConstructPanic("inconsistent", <<info, read>>)
            ELSE /\ pc' = "recovering"
                 /\ infoHeight' = Height
                 /\ savepointValue' = SavepointRead(savepoint)
                 /\ blockNumber' = FirstReplayed(SavepointRead(savepoint))
                 /\ outcome' = "running"
                 /\ err' = "nil"
                 /\ trace' = <<info, read>>
                 /\ pendingBlockToCommit' = NoBlock
                 /\ UNCHANGED updateSet

\* Variant: recovery mirrors the replayed block into the history as a live
\* Commit does.
HistoryAfterReplay_Mirrored(hist, block, enabled) ==
    IF enabled THEN HistCommit(hist, block) ELSE hist

\* recoverStateDB: the history once a block is replayed; the loop calls the
\* state manager only.
HistoryAfterReplay(hist, block, enabled) == hist

\* Variant: the error of the state manager's Commit is dropped, the loop
\* goes on with the next block.
RecoveryAborts_CommitErrIgnored(fail) == fail \in {"fetch", "validate"}

\* recoverStateDB: a failed step of the loop returns its error.
RecoveryAborts(fail) == fail # "none"

\* One iteration of the replay loop of recoverStateDB.
RecoverBlock ==
    /\ pc = "recovering"
    /\ blockNumber <= infoHeight
    /\ UNCHANGED <<blocks, config, snap, prev, iter>>
    /\ \E fail \in {"none", "fetch", "validate", "commit"} :
        LET block == RetrieveBlockByNumber(blocks, blockNumber)
            r == ValidateAndPrepare(block, FALSE, state)
            c == TxMgrCommit(state, r.updateSet)
            fetch == Call("RetrieveBlockByNumber", blockNumber)
            vp == Call("ValidateAndPrepare(false)", block.num)
            commit == Call("TxMgrCommit", r.updateSet.num)
            calls == CASE fail = "fetch" -> <<fetch>>
                       [] fail = "validate" -> <<fetch, vp>>
                       [] OTHER -> <<fetch, vp, commit>>
        IN  IF RecoveryAborts(fail)
            THEN /\ ConstructPanic(fail, trace \o calls)
                 /\ UNCHANGED <<state, savepoint, applied, history>>
            ELSE /\ pendingBlockToCommit' = block
                 /\ state' = IF fail = "none" THEN c.state ELSE state
                 /\ savepoint' = IF fail = "none" THEN c.savepoint ELSE savepoint
                 /\ applied' = IF fail = "none"
                               THEN Count(applied, r.updateSet.num) ELSE applied
                 /\ history' = IF fail = "none"
                               THEN HistoryAfterReplay(history, block, histEnabled)
                               ELSE history
                 /\ updateSet' = NoUpdateSet
                 /\ blockNumber' = blockNumber + 1
                 /\ trace' = trace \o calls
                 /\ err' = IF fail = "none" THEN err ELSE fail
                 /\ UNCHANGED <<pc, infoHeight, savepointValue, outcome>>

\* The end of recoverStateDB and of NewKVLedger: the handle is returned.
RecoverDone ==
    /\ pc = "recovering"
    /\ blockNumber > infoHeight
    /\ Constructed(trace)
    /\ pendingBlockToCommit' = PendingAfterRecovery(pendingBlockToCommit)
    /\ UNCHANGED <<durable, config, snap, prev, updateSet, iter>>

\* The valid transactions among the first n of a validated block.
RECURSIVE ValidOnly(_, _)
ValidOnly(block, n) ==
    IF n = 0 THEN <<>>
    ELSE IF block.flags[n] THEN Append(ValidOnly(block, n - 1), block.txs[n])
    ELSE ValidOnly(block, n - 1)

\* Variant: the rejected transactions are removed from the block that is
\* kept for Commit.
PendingAfterPrepare_Filtered(validBlock, e, pending) ==
    IF e = "nil"
    THEN LET kept == ValidOnly(validBlock, Len(validBlock.txs))
         IN  [validBlock EXCEPT !.txs = kept, !.flags = [i \in 1..Len(kept) |-> TRUE]]
    ELSE pending

\* Variant: the returned block is stored without looking at the error.
PendingAfterPrepare_ErrUnchecked(validBlock, e, pending) == validBlock

\* Variant: a block that is already pending is not replaced.
PendingAfterPrepare_KeepFirst(validBlock, e, pending) ==
    IF e = "nil" /\ pending = NoBlock THEN validBlock ELSE pending

\* The pending block after ValidateAndPrepare returned (validBlock, e).
PendingAfterPrepare(validBlock, e, pending) ==
    IF e = "nil" THEN validBlock ELSE pending

\* The body of RemoveInvalidTransactionsAndPrepare(block), for a block
\* whose transactions are drawn from bodies. A ValidateAndPrepare that
\* returns an error stages nothing: the state manager keeps what it had.
PrepareBlockOf(bodies) ==
    /\ Height < MaxHeight
    /\ \E txs \in bodies, ok \in BOOLEAN :
        LET block == NewBlock(Height, txs)
            r == ValidateAndPrepare(block, TRUE, state)
            e == IF ok THEN "nil" ELSE "validate"
        IN  /\ updateSet' = IF ok THEN r.updateSet ELSE updateSet
            /\ pendingBlockToCommit' =
                   PendingAfterPrepare(r.block, e, pendingBlockToCommit)
            /\ outcome' = IF ok THEN "prepared" ELSE "prepare_err"
            /\ err' = e
            /\ trace' = <<Call("ValidateAndPrepare(true)", block.num)>>
            /\ IF ok THEN snap' = Snapshot(txs) ELSE KeepSnapshot
    /\ prev' = outcome
    /\ KeepWaiting
    /\ UNCHANGED <<durable, config, pc, recoveryLocals>>

\* The body of RemoveInvalidTransactionsAndPrepare(block), for any block.
PrepareBlock == PrepareBlockOf(Proposals(state))

\* RemoveInvalidTransactionsAndPrepare(block) for a block of one
\* transaction, called while no other call of the ledger is running.
PrepareShortBlock ==
    /\ pc = "ready"
    /\ PrepareBlockOf({txs \in Proposals(state) : Len(txs) = 1})

\* RemoveInvalidTransactionsAndPrepare(block), called while no other call
\* of the ledger is running.
RemoveInvalidTransactionsAndPrepare ==
    /\ pc = "ready"
    /\ PrepareBlock

\* Commit panics: the process dies where it is.
CommitPanic(e, calls) ==
    /\ Dead
    /\ iter' = NoIter
    /\ outcome' = "commit_panic"
    /\ err' = e
    /\ trace' = calls

\* Variant: the error of blockStore.AddBlock is ignored.
AfterAddBlock_ErrIgnored(ok) == "commit_state"

\* Commit: where it goes once blockStore.AddBlock has returned: on to
\* txtmgmt.Commit, or back to the caller with the error.
AfterAddBlock(ok) == IF ok THEN "commit_state" ELSE "ready"

\* Commit: the nil check and blockStore.AddBlock.
CommitAddBlock ==
    /\ pc = "ready"
    /\ prev' = outcome
    /\ UNCHANGED <<state, savepoint, history, applied, config>>
    /\ KeepSnapshot
    /\ IF pendingBlockToCommit = NoBlock
       THEN /\ CommitPanic("nothing_to_commit", <<>>)
            /\ UNCHANGED blocks
       ELSE \E ok \in BOOLEAN :
            LET add == Call("AddBlock", pendingBlockToCommit.num)
            IN  /\ blocks' = IF ok THEN AddBlock(blocks, pendingBlockToCommit)
                              ELSE blocks
                /\ pc' = AfterAddBlock(ok)
                /\ outcome' = IF pc' = "ready" THEN "commit_err" ELSE "running"
                /\ err' = IF ok THEN "nil" ELSE "append"
                /\ trace' = <<add>>
                /\ KeepWaiting
                /\ UNCHANGED <<pendingBlockToCommit, updateSet, recoveryLocals>>

\* Commit: txtmgmt.Commit.
CommitState ==
    /\ pc = "commit_state"
    /\ UNCHANGED <<blocks, history, config, snap, prev>>
    /\ \E ok \in BOOLEAN :
        LET c == TxMgrCommit(state, updateSet)
            commit == Call("TxMgrCommit", updateSet.num)
        IN  IF ok /\ updateSet # NoUpdateSet
            THEN /\ state' = c.state
                 /\ savepoint' = c.savepoint
                 /\ applied' = Count(applied, updateSet.num)
                 /\ updateSet' = NoUpdateSet
                 /\ pc' = "commit_hist"
                 /\ trace' = Append(trace, commit)
                 /\ KeepWaiting
                 /\ UNCHANGED <<pendingBlockToCommit, recoveryLocals, outcome, err>>
            ELSE /\ CommitPanic("state_commit", Append(trace, commit))
                 /\ UNCHANGED <<state, savepoint, applied>>

\* Variant: a completed Commit leaves its block pending.
PendingAfterCommit_Kept(pending) == pending

\* Commit: the pending block once all stores are written.
PendingAfterCommit(pending) == NoBlock

\* Commit: historymgmt.Commit if history is enabled, then the pending block
\* is cleared and Commit returns nil.
CommitHistory ==
    /\ pc = "commit_hist"
    /\ UNCHANGED <<blocks, state, savepoint, applied, config, snap, prev>>
    /\ \E ok \in BOOLEAN :
        LET mirror == Call("HistCommit", pendingBlockToCommit.num)
            done == /\ pendingBlockToCommit' = PendingAfterCommit(pendingBlockToCommit)
                    /\ pc' = "ready"
                    /\ outcome' = "committed"
                    /\ err' = "nil"
                    /\ KeepWaiting
                    /\ UNCHANGED <<updateSet, recoveryLocals>>
        IN  IF ~histEnabled
            THEN /\ done
                 /\ UNCHANGED <<history, trace>>
            ELSE IF ok
            THEN /\ history' = HistCommit(history, pendingBlockToCommit)
                 /\ trace' = Append(trace, mirror)
                 /\ done
            ELSE /\ CommitPanic("history_commit", Append(trace, mirror))
                 /\ UNCHANGED history

\* Variant: Rollback leaves the block pending.
PendingAfterRollback_Kept(pending) == pending

\* Rollback: the pending block after it.
PendingAfterRollback(pending) == NoBlock

\* The body of Rollback().
DiscardBlock ==
    /\ updateSet' = NoUpdateSet
    /\ pendingBlockToCommit' = PendingAfterRollback(pendingBlockToCommit)
    /\ outcome' = "rolled_back"
    /\ err' = "nil"
    /\ trace' = <<Call("TxMgrRollback", 0)>>
    /\ prev' = outcome
    /\ KeepSnapshot
    /\ KeepWaiting
    /\ UNCHANGED <<durable, config, pc, recoveryLocals>>

\* Rollback(), called while no other call of the ledger is running.
Rollback ==
    /\ pc = "ready"
    /\ DiscardBlock

\* The ledger has no lock: a second caller's
\* RemoveInvalidTransactionsAndPrepare runs between two steps of a Commit
\* that a first caller has under way.
ConcurrentPrepare ==
    /\ pc \in {"commit_state", "commit_hist"}
    /\ PrepareBlock

\* A second caller's Rollback runs between two steps of a Commit that a
\* first caller has under way.
ConcurrentRollback ==
    /\ pc \in {"commit_state", "commit_hist"}
    /\ DiscardBlock

\* The process is killed inside Commit: after AddBlock returned, or after
\* txtmgmt.Commit returned.
Crash ==
    /\ pc \in {"commit_state", "commit_hist"}
    /\ Dead
    /\ outcome' = "crashed"
    /\ iter' = NoIter
    /\ err' = "nil"
    /\ UNCHANGED <<durable, config, snap, prev, trace>>

\* Close(): the stores are shut down and the handle is given up; what the
\* ledger held in memory is gone with it. The outcome tells a handle closed
\* straight after its construction from one that served operations.
Close ==
    /\ pc = "ready"
    /\ Dead
    /\ outcome' = IF outcome = "constructed" THEN "closed_fresh" ELSE "closed"
    /\ err' = "nil"
    /\ trace' = <<Call("Shutdown", 0)>>
    /\ prev' = outcome
    /\ snap' = NoSnapshot
    /\ iter' = NoIter
    /\ UNCHANGED <<durable, config>>

\* Variant: the iterator is opened one block below the height asked for.
IteratorStart_Before(startBlockNumber) ==
    IF startBlockNumber > 1 THEN startBlockNumber - 1 ELSE startBlockNumber

\* GetBlocksIterator: the height handed to blockStore.RetrieveBlocks.
IteratorStart(startBlockNumber) == startBlockNumber

\* GetBlocksIterator(startBlockNumber), for the block after the last one of
\* the block store: the call reads the block store only, so it also runs
\* while a Commit is under way.
GetBlocksIterator ==
    /\ pc \in {"ready", "commit_state", "commit_hist"}
    /\ iter = NoIter
    /\ Height < MaxHeight
    /\ LET startBlockNumber == Height + 1
       IN  iter' = [asked |-> startBlockNumber,
                    next |-> IteratorStart(startBlockNumber),
                    got |-> NoBlock]
    /\ UNCHANGED <<durable, config, updateSet, pendingBlockToCommit, pc,
                   recoveryLocals, outcome, prev, err, trace, snap>>

\* The block store's iterator: a consumer blocked in Next() is handed the
\* block of the height it waits for once the block store holds it.
IterNext ==
    /\ pc # "down"
    /\ iter # NoIter
    /\ iter.got = NoBlock
    /\ iter.next <= Height
    /\ iter' = [iter EXCEPT !.got = RetrieveBlockByNumber(blocks, iter.next)]
    /\ UNCHANGED <<durable, config, updateSet, pendingBlockToCommit, pc,
                   recoveryLocals, outcome, prev, err, trace, snap>>

Next ==
    \/ NewKVLedger
    \/ RecoverBlock
    \/ RecoverDone
    \/ RemoveInvalidTransactionsAndPrepare
    \/ CommitAddBlock
    \/ CommitState
    \/ CommitHistory
    \/ Rollback
    \/ Close
    \/ Crash

\* From an initially consistent ledger.
Spec == Init /\ [][Next]_vars

\* Construction alone, from any ledger directory.
NextConstruct ==
    \/ NewKVLedger
    \/ RecoverBlock
    \/ RecoverDone
    \/ Close

SpecConstruct == InitAny /\ [][NextConstruct]_vars

\* Two callers of one ledger, created on an empty directory: the calls of
\* the second one start wherever the scheduler puts them, also between two
\* steps of the first one's Commit. The process ends by a panic only.
NextConcurrent ==
    \/ NewKVLedger
    \/ RecoverBlock
    \/ RecoverDone
    \/ RemoveInvalidTransactionsAndPrepare
    \/ CommitAddBlock
    \/ CommitState
    \/ CommitHistory
    \/ Rollback
    \/ ConcurrentPrepare
    \/ ConcurrentRollback

SpecConcurrent == InitFresh /\ [][NextConcurrent]_vars

\* The ledger, created on an empty directory and fed blocks of one
\* transaction, with a consumer of its block iterator. The consumer is a
\* thread of its own that the scheduler keeps running: once the block store
\* can hand it a block, it gets it.
NextIter ==
    \/ NewKVLedger
    \/ RecoverBlock
    \/ RecoverDone
    \/ PrepareShortBlock
    \/ CommitAddBlock
    \/ CommitState
    \/ CommitHistory
    \/ Rollback
    \/ Close
    \/ Crash
    \/ GetBlocksIterator
    \/ IterNext

SpecIter == InitFresh /\ [][NextIter]_vars /\ WF_vars(IterNext)

TypeOK ==
    /\ savepoint \in 0..MaxHeight
    /\ Height \in 0..MaxHeight
    /\ pc \in {"down", "recovering", "ready", "commit_state", "commit_hist"}

----------------------------------------------------------------------------
(* Properties.                                                             *)

\* The calls recovery makes to replay the heights from..to, in order.
RECURSIVE ReplayCalls(_, _)
ReplayCalls(from, to) ==
    IF from > to THEN <<>>
    ELSE <<Call("RetrieveBlockByNumber", from),
           Call("ValidateAndPrepare(false)", from),
           Call("TxMgrCommit", from)>> \o ReplayCalls(from + 1, to)

\* The calls of a trace that replay a block or write to the state manager.
ReplayWork(calls) ==
    {i \in 1..Len(calls) :
        calls[i].op \in {"RetrieveBlockByNumber", "ValidateAndPrepare(false)",
                         "TxMgrCommit"}}

\* C1: from an initially consistent ledger, in every state reached by
\* prepares, commits, rollbacks, crashes inside Commit and restarts, the
\* savepoint is at most the block-store height.
C1_SavepointAtMostHeight == savepoint <= Height

\* C1: a crash inside Commit, after the append, left the state one block
\* behind the block store.
C1_Witness == outcome = "crashed" /\ savepoint < Height

\* C2: the construction that follows a crash inside Commit ends with the
\* savepoint equal to the block-store height, and every block of the block
\* store has been applied to the state exactly once over the whole history.
C2_RecoveryExactlyOnce ==
    (outcome = "constructed" /\ prev = "crashed") =>
        /\ savepoint = Height
        /\ \A n \in 1..Height : applied[n] = 1

\* C2: a construction after a crash that replayed the block the crashed
\* Commit had appended.
C2_Witness ==
    /\ outcome = "constructed"
    /\ prev = "crashed"
    /\ ReplayWork(trace) # {}

\* C3: a construction that finds 0 < savepoint < height and meets no failure
\* replays exactly savepoint+1..height, in increasing order, once each (fetch,
\* ValidateAndPrepare without filtering, state-manager Commit); every
\* iteration moves the savepoint up by one; it ends without error with the
\* savepoint equal to the height.
C3_ReplayInOrder ==
    /\ (pc = "recovering" /\ savepointValue > 0) =>
          /\ savepointValue < infoHeight
          /\ infoHeight = Height
          /\ blockNumber \in (savepointValue + 1)..(infoHeight + 1)
          /\ savepoint = blockNumber - 1
          /\ SubSeq(trace, 3, Len(trace)) =
                 ReplayCalls(savepointValue + 1, blockNumber - 1)
    /\ (outcome = "constructed" /\ Len(trace) >= 2) =>
          LET found == trace[2].n
          IN  (0 < found /\ found < Height) =>
                 /\ SubSeq(trace, 3, Len(trace)) = ReplayCalls(found + 1, Height)
                 /\ savepoint = Height
                 /\ err = "nil"
                 /\ pc = "ready"

\* C3: a construction that found savepoint 1 under height 3 and has replayed
\* the two missing blocks.
C3_Witness ==
    /\ outcome = "constructed"
    /\ Len(trace) = 8
    /\ trace[2].n = 1
    /\ Height = 3

\* The state manager has applied exactly the blocks up to its savepoint, each
\* once: nothing was applied since the ledger directory was found.
NothingApplied == applied = [n \in 1..MaxHeight |-> IF n <= savepoint THEN 1 ELSE 0]

\* C4, as stated: whenever the savepoint is above the block-store height, no
\* ledger handle is returned.
C4_AnyHeightFailsFast == savepoint > Height => pc # "ready"

\* C4, amended: over a non-empty block store, a construction that reads a
\* savepoint above the block-store height panics with the inconsistent-state
\* error, returns no handle, and replays nothing.
C4_NonEmptyFailsFast ==
    (Height > 0 /\ savepoint > Height /\ outcome # "none") =>
        /\ pc = "down"
        /\ outcome = "construct_panic"
        /\ Len(trace) = 2
        /\ trace[2].n >= 0 => err = "inconsistent"
        /\ ReplayWork(trace) = {}
        /\ NothingApplied

\* C4: a construction over a non-empty block store that is behind the
\* savepoint has failed with the inconsistent-state error.
C4_Witness ==
    /\ Height > 0
    /\ savepoint > Height
    /\ outcome = "construct_panic"
    /\ err = "inconsistent"

\* C5: over an empty block store construction succeeds whatever the
\* savepoint, fetches no block, calls neither ValidateAndPrepare nor Commit
\* of the state manager, leaves savepoint and state unchanged, and the
\* block-store height is still 0.
C5_EmptyStoreNoRecovery ==
    [][(pc = "down" /\ Height = 0) =>
          /\ pc' = "ready"
          /\ outcome' = "constructed"
          /\ err' = "nil"
          /\ trace' = <<Call("GetBlockchainInfo", 0)>>
          /\ pendingBlockToCommit' = NoBlock
          /\ Len(blocks') = 0
          /\ UNCHANGED <<state, savepoint, applied, history>>]_vars

\* C5: a ledger constructed over an empty block store and a state manager
\* whose savepoint is not 0.
C5_Witness ==
    /\ outcome = "constructed"
    /\ Height = 0
    /\ savepoint > 0

\* No block is pending after a successful construction, a completed Commit,
\* a Rollback, or a prepare that failed right after one of these.
IdleCase ==
    /\ pc = "ready"
    /\ \/ outcome \in {"constructed", "committed", "rolled_back"}
       \/ /\ outcome = "prepare_err"
          /\ prev \in {"constructed", "committed", "rolled_back"}

\* C6: Commit called with no block pending (after a successful construction,
\* a completed Commit, a Rollback, or a prepare that failed from IDLE) panics:
\* nothing is appended, neither the state manager's nor the history manager's
\* Commit is called, height and savepoint are unchanged.
C6_CommitWhileIdlePanics ==
    [][(IdleCase /\ CommitAddBlock) =>
          /\ pc' = "down"
          /\ outcome' = "commit_panic"
          /\ err' = "nothing_to_commit"
          /\ trace' = <<>>
          /\ UNCHANGED <<blocks, state, savepoint, history, applied>>]_vars

\* C6: a Commit called directly after a successful construction over a
\* non-empty block store has panicked.
C6_Witness ==
    /\ outcome = "commit_panic"
    /\ err = "nothing_to_commit"
    /\ prev = "constructed"
    /\ Height > 0

\* C7: a Commit with a pending block appends to the block store, then
\* commits the state manager, then (history enabled) the history manager, then
\* clears the pending block, each step after the one before it has succeeded;
\* so neither the state manager nor the history manager ever holds a block
\* that is not in the block store.
C7_CommitOrder ==
    /\ \A n \in 1..MaxHeight : applied[n] > 0 => n <= Height
    /\ \A i \in 1..Len(history) :
          history[i] <= Height /\ applied[history[i]] > 0
    /\ pc = "commit_state" =>
          /\ trace = <<Call("AddBlock", Height)>>
          /\ pendingBlockToCommit = blocks[Height]
          /\ savepoint < Height
    /\ pc = "commit_hist" =>
          /\ trace = <<Call("AddBlock", Height), Call("TxMgrCommit", Height)>>
          /\ pendingBlockToCommit = blocks[Height]
          /\ savepoint = Height
          /\ \A i \in 1..Len(history) : history[i] # Height
    /\ outcome = "committed" =>
          /\ trace = <<Call("AddBlock", Height), Call("TxMgrCommit", Height)>>
                       \o (IF histEnabled THEN <<Call("HistCommit", Height)>>
                           ELSE <<>>)
          /\ pendingBlockToCommit = NoBlock
          /\ histEnabled => history # <<>> /\ history[Len(history)] = Height
          /\ ~histEnabled => history = <<>>

\* C7: a Commit with history enabled has written all three stores.
C7_Witness ==
    /\ outcome = "committed"
    /\ histEnabled
    /\ Len(trace) = 3

\* C8: when blockStore.AddBlock fails, Commit returns the error without
\* panicking and nothing is mutated: no Commit of the state manager or of the
\* history manager, and block-store height, savepoint, state and history are
\* as before the call.
C8_AppendFailureMutatesNothing ==
    [][(CommitAddBlock /\ err' = "append") =>
          /\ pc' = "ready"
          /\ outcome' = "commit_err"
          /\ trace' = <<Call("AddBlock", pendingBlockToCommit.num)>>
          /\ UNCHANGED <<blocks, state, savepoint, history, applied>>]_vars

\* C8: a Commit has returned the error of the block-store append.
C8_Witness ==
    /\ outcome = "commit_err"
    /\ err = "append"
    /\ pc = "ready"

\* C9: a successful prepare followed by Rollback leaves state, savepoint and
\* block-store height as they were before the prepare, discards the staged
\* update set, clears the pending block, and a Commit right after the
\* Rollback is rejected as a Commit with nothing pending.
C9_RollbackRestores ==
    [][/\ (outcome = "prepared" /\ Rollback) =>
             /\ state' = snap.state
             /\ savepoint' = snap.savepoint
             /\ Len(blocks') = snap.height
             /\ UNCHANGED <<blocks, state, savepoint, history, applied>>
             /\ updateSet' = NoUpdateSet
             /\ pendingBlockToCommit' = NoBlock
             /\ pc' = "ready"
       /\ (outcome = "rolled_back" /\ prev = "prepared" /\ CommitAddBlock) =>
             /\ outcome' = "commit_panic"
             /\ err' = "nothing_to_commit"
             /\ UNCHANGED <<blocks, state, savepoint, history, applied>>]_vars

\* C9: a Rollback has followed a successful prepare.
C9_Witness ==
    /\ outcome = "rolled_back"
    /\ prev = "prepared"
    /\ snap.txs # <<>>

\* Transaction i of txs is valid on committed state st: it read the committed
\* version of its key, and no earlier transaction of the block did.
ValidAt(txs, st, i) ==
    /\ txs[i].ver = st[txs[i].key]
    /\ ~\E j \in 1..(i - 1) :
          txs[j].key = txs[i].key /\ txs[j].ver = st[txs[j].key]

\* State st after the valid transactions of block num, and only they, have
\* written their keys.
StateWithValidOnly(txs, st, num) ==
    [k \in Keys |->
        IF \E i \in 1..Len(txs) : txs[i].key = k /\ ValidAt(txs, st, i)
        THEN <<num, CHOOSE i \in 1..Len(txs) : txs[i].key = k /\ ValidAt(txs, st, i)>>
        ELSE st[k]]

RECURSIVE LiveState(_, _)
LiveState(log, n) ==
    IF n = 0 THEN EmptyState
    ELSE LET before == LiveState(log, n - 1)
             r == ValidateAndPrepare(NewBlock(n - 1, log[n].txs), TRUE, before)
         IN  ApplyUpdates(before, r.updateSet)

\* C11: after a recovery that replayed the stored blocks savepoint+1..height
\* without filtering, the state database is the one that committing every
\* block 1..height live, in order, produces; also when replayed blocks hold
\* transactions that live validation rejected.
C11_ReplayEqualsLive ==
    (outcome = "constructed" /\ ReplayWork(trace) # {}) =>
        state = LiveState(blocks, Height)

\* C11: a recovery has replayed a block in which live validation had
\* rejected one transaction and accepted another.
C11_Witness ==
    /\ outcome = "constructed"
    /\ ReplayWork(trace) # {}
    /\ \E i \in ReplayWork(trace) :
          /\ trace[i].op = "TxMgrCommit"
          /\ \E j, k \in 1..Len(blocks[trace[i].n].flags) :
                blocks[trace[i].n].flags[j] /\ ~blocks[trace[i].n].flags[k]

\* C12: a recovery run straight after a completed one (the ledger is closed
\* and constructed again, no commit in between) changes nothing: it returns
\* the handle, leaves block store, savepoint and state as they were, and
\* calls neither ValidateAndPrepare nor Commit on the state manager.
C12_SecondRecoveryIdle ==
    [][(outcome = "closed_fresh" /\ NewKVLedger /\ err' # "savepoint") =>
          /\ pc' = "ready"
          /\ outcome' = "constructed"
          /\ ReplayWork(trace') = {}
          /\ UNCHANGED durable]_vars

\* C12: a second recovery in a row has completed, after a first one that
\* had blocks to replay.
C12_Witness ==
    /\ outcome = "constructed"
    /\ prev = "closed_fresh"
    /\ Height > 0
    /\ savepoint = Height
    /\ histEnabled
    /\ \E n \in 1..Height : applied[n] = 1 /\ Len(history) < n

\* The calls of a recovery that failed in its step op on block k, after it
\* read the savepoint s0.
FailedReplay(s0, k, op) ==
    <<Call("GetBlockchainInfo", Height), Call("GetBlockNumFromSavepoint", s0)>>
    \o ReplayCalls(s0 + 1, k - 1)
    \o CASE op = "fetch" -> <<Call("RetrieveBlockByNumber", k)>>
         [] op = "validate" -> <<Call("RetrieveBlockByNumber", k),
                                 Call("ValidateAndPrepare(false)", k)>>
         [] OTHER -> <<Call("RetrieveBlockByNumber", k),
                       Call("ValidateAndPrepare(false)", k),
                       Call("TxMgrCommit", k)>>

\* C13: a recovery whose savepoint read fails, or whose replay of block k
\* fails in the fetch, in ValidateAndPrepare or in the state Commit, stops
\* there: the failed step is its last call, block k and the blocks above it
\* are not applied, the error is raised and no handle is returned, so the
\* ledger is down and serves nothing; a recovery goes on, and a handle is
\* returned, only while no step has failed.
C13_FailedRecoveryAborts ==
    /\ (pc = "recovering" \/ outcome = "constructed") => err = "nil"
    /\ outcome = "construct_panic" =>
          /\ pc = "down"
          /\ pendingBlockToCommit = NoBlock
          /\ err \in {"savepoint", "inconsistent", "fetch", "validate", "commit"}
          /\ err = "savepoint" =>
                /\ trace = <<Call("GetBlockchainInfo", Height),
                             Call("GetBlockNumFromSavepoint", -1)>>
                /\ NothingApplied
          /\ err \in {"fetch", "validate", "commit"} =>
                LET k == trace[Len(trace)].n
                IN  /\ trace = FailedReplay(trace[2].n, k, err)
                    /\ savepoint = k - 1
                    /\ \A n \in k..MaxHeight : applied[n] = 0

\* C13: the state Commit of a replayed block failed while a block above it
\* was still to be replayed, after a block below it had been replayed.
C13_Witness ==
    /\ outcome = "construct_panic"
    /\ err = "commit"
    /\ trace[Len(trace)].n < Height
    /\ trace[2].n + 1 < trace[Len(trace)].n

\* C14: RemoveInvalidTransactionsAndPrepare makes the submitted block the
\* pending one exactly when ValidateAndPrepare returns no error; when it
\* returns an error the pending slot is left as it was, so a failure with no
\* block pending leaves none pending and nothing staged; block store,
\* savepoint and state are unchanged either way.
C14_PendingIffPrepared ==
    [][RemoveInvalidTransactionsAndPrepare =>
          /\ UNCHANGED durable
          /\ pc' = "ready"
          /\ err' = "nil" =>
                /\ outcome' = "prepared"
                /\ pendingBlockToCommit' # NoBlock
                /\ pendingBlockToCommit'.num = Height + 1
                /\ pendingBlockToCommit'.txs = snap'.txs
                /\ updateSet'.num = Height + 1
          /\ err' # "nil" =>
                /\ outcome' = "prepare_err"
                /\ pendingBlockToCommit' = pendingBlockToCommit
                /\ updateSet' = updateSet
                /\ pendingBlockToCommit = NoBlock =>
                      /\ pendingBlockToCommit' = NoBlock
                      /\ updateSet' = NoUpdateSet]_vars

\* C14: a prepare has failed on a ledger that had no block pending and had
\* committed a block before.
C14_Witness ==
    /\ pc = "ready"
    /\ outcome = "prepare_err"
    /\ prev = "committed"
    /\ pendingBlockToCommit = NoBlock
    /\ updateSet = NoUpdateSet

\* C15: Rollback with no block pending changes nothing: no block is pending
\* after it, nothing is staged, block store, savepoint and state are as
\* before and the ledger stays ready; a Rollback that follows a Rollback
\* leaves everything as the first one left it.
C15_RollbackWhileIdle ==
    [][(Rollback /\ (IdleCase \/ outcome = "rolled_back")) =>
          /\ pendingBlockToCommit' = NoBlock
          /\ updateSet' = NoUpdateSet
          /\ pc' = "ready"
          /\ UNCHANGED durable
          /\ outcome = "rolled_back" =>
                UNCHANGED <<pendingBlockToCommit, updateSet>>]_vars

\* C15: a Rollback has followed a Rollback, on a ledger that holds blocks.
C15_Witness ==
    /\ outcome = "rolled_back"
    /\ prev = "rolled_back"
    /\ pendingBlockToCommit = NoBlock
    /\ Height > 0

\* C16: with two callers, the calls on the ledger do not interleave: while a
\* Commit is between its steps the pending block is the block that Commit
\* appended, the update set the state manager applies next is that block's,
\* and once applied the savepoint is that block's height.
C16_CommitNotInterleaved ==
    /\ pc \in {"commit_state", "commit_hist"} =>
          /\ Height > 0
          /\ pendingBlockToCommit = blocks[Height]
    /\ pc = "commit_state" =>
          updateSet = UpdateSetOf(Height, blocks[Height].txs, blocks[Height].flags)
    /\ pc = "commit_hist" => savepoint = Height

\* A consumer waits for a block the block store does not hold yet.
Suspended == iter # NoIter /\ iter.got = NoBlock /\ Height < iter.asked

\* The block a consumer waits for is in the block store.
Resumable == iter # NoIter /\ iter.got = NoBlock /\ iter.asked <= Height

\* C17: a consumer that asked for block n while the height was n-1 stays
\* suspended until a Commit appends block n: only the append of the pending
\* block n makes it resumable, a prepare or a Rollback leaves it as it is;
\* what it receives is block n as the block store holds it, never a block
\* that is only pending; and once block n is appended the consumer is
\* resumed, unless the process ends first.
C17_ConsumerGetsAppendedBlock ==
    /\ [](iter.got # NoBlock =>
             /\ iter.asked <= Height
             /\ iter.got = blocks[iter.asked])
    /\ [][/\ (Suspended /\ (PrepareShortBlock \/ Rollback)) =>
                iter' = iter /\ Suspended'
          /\ (Suspended /\ Resumable') =>
                /\ pc = "ready" /\ pc' = "commit_state"
                /\ blocks' = Append(blocks, pendingBlockToCommit)
                /\ Len(blocks') = iter.asked
          /\ (iter.got = NoBlock /\ iter'.got # NoBlock) =>
                Resumable /\ UNCHANGED blocks]_vars
    /\ Resumable ~> (iter.got # NoBlock \/ iter = NoIter)

\* C17: a consumer that was suspended has received the block it asked for,
\* a block with a rejected transaction.
C17_Witness ==
    /\ iter.got # NoBlock
    /\ iter.asked = Height
    /\ \E i \in 1..Len(iter.got.flags) : ~iter.got.flags[i]

\* C18: when a prepare of block B succeeds while block A of an earlier
\* successful prepare, with other transactions, is still pending, B is the
\* pending block and B's update set the staged one; the Commit that follows
\* appends one block, which is B and so not A, and applies B's update set.
C18_SecondPrepareWins ==
    /\ (outcome = "prepared" /\ snap.replaced) =>
          /\ pendingBlockToCommit.txs = snap.txs
          /\ pendingBlockToCommit.num = Height + 1
          /\ Height = snap.height
          /\ updateSet = UpdateSetOf(Height + 1, snap.txs,
                 [i \in 1..Len(snap.txs) |-> ValidAt(snap.txs, snap.state, i)])
    /\ (outcome = "committed" /\ snap.replaced) =>
          /\ Height = snap.height + 1
          /\ blocks[Height].txs = snap.txs
          /\ state = StateWithValidOnly(snap.txs, snap.state, Height)
          /\ savepoint = Height

\* C18: a block has been committed that had replaced a pending block of
\* other transactions.
C18_Witness ==
    /\ outcome = "committed"
    /\ snap.replaced
    /\ blocks[Height].txs = snap.txs
    /\ Len(snap.txs) = 2

\* C19: whenever the ledger is open and no Commit is under way (no block
\* pending or one pending; after a prepare, a completed Commit, a Commit
\* that failed at the append, a Rollback), the savepoint equals the
\* block-store height; and once the savepoint is at most one block behind,
\* as it is when a construction succeeds, it stays at most one block behind
\* through every step, crashes inside Commit included, so a restart replays
\* at most one block.
C19_SavepointTracksHeight ==
    /\ [](pc = "ready" => savepoint = Height)
    /\ [][Height - savepoint <= 1 => Height' - savepoint' <= 1]_vars
    /\ [][(outcome \in {"crashed", "commit_panic"} /\ pc' = "recovering") =>
              blockNumber' = infoHeight']_vars

\* C19: a ledger killed inside the Commit of its third block, before the
\* state commit, has been constructed again: the restart found the savepoint
\* one block behind and replayed that one block.
C19_Witness ==
    /\ pc = "ready"
    /\ outcome = "constructed"
    /\ prev = "crashed"
    /\ Height = 3
    /\ savepoint = Height
    /\ trace = <<Call("GetBlockchainInfo", 3), Call("GetBlockNumFromSavepoint", 2)>>
               \o ReplayCalls(3, 3)

\* The heights the history holds.
InHistory == {history[i] : i \in 1..Len(history)}

\* C20: recovery writes to the state manager only: no step of a construction
\* changes the block store or the history. So with history enabled, a block
\* whose Commit was killed before its history commit is not in the history
\* after the restart, although the savepoint equals the height again.
C20_RecoveryLeavesHistory ==
    /\ [][(NewKVLedger \/ RecoverBlock \/ RecoverDone) =>
              UNCHANGED <<blocks, history>>]_vars
    /\ []((histEnabled /\ outcome = "constructed" /\ prev = "crashed") =>
              /\ savepoint = Height
              /\ Height \notin InHistory)

\* C20: with history enabled, a Commit was killed after its state commit
\* and before its history commit, and the ledger has been constructed
\* again without replaying anything.
C20_Witness ==
    /\ histEnabled
    /\ outcome = "constructed"
    /\ prev = "crashed"
    /\ ReplayWork(trace) = {}
    /\ savepoint = Height
    /\ Height \notin InHistory

====
